---- MODULE Spec2Model ----
(***************************************************************************)
(* Model of the streaming ingestion path of realtimetrafficanalysis.py:    *)
(* produce_realtime_data (snapshot -> topic), consume_realtime_data        *)
(* (topic -> realtime_traffic_data), ensure_realtime_table_exists and the  *)
(* first lines of run_dashboard that read the table back.                  *)
(*                                                                         *)
(* JSON / Python values are tagged tuples: <<"num", n>>, <<"str", s>>,     *)
(* <<"nan">> (float nan) and <<"null">> (JSON null, Python None, SQL NULL).*)
(* A dict is the sequence of its <<key, value>> items in insertion order,  *)
(* with pairwise distinct keys.                                            *)
(***************************************************************************)
EXTENDS Integers, Sequences, FiniteSets, TLC

VARIABLES
    topic,         \* the 'realtime_traffic' topic: the message bytes, in offset order
    pcP,           \* produce_realtime_data: "Idle", "Sending", "Done", "Failed"
    df,            \* produce_realtime_data: the parsed snapshot (sequence of row dicts)
    row,           \* produce_realtime_data: index of the next row of df.iterrows()
    api,           \* the snapshot the API serves, as parsed by read_csv
    out,           \* the line produce_realtime_data printed (<<>> if none yet)
    pcC,           \* consume_realtime_data, the next statement: "Start", "Subscribe",
                   \* "Connect", "Fetch", "Insert", "Commit"; or how it ended:
                   \* "QuotaReached", "IdleTimeout", "Error"
    pos,           \* consumer: offset of the next message the iterator delivers
    msg,           \* consumer: msg.value of the message being processed
    record_count,  \* consumer: the local record_count
    conn,          \* state of the psycopg2 connections: [ensure, consume]
    txn,           \* rows executed on the consume connection and not yet committed
    table,         \* committed rows of realtime_traffic_data
    exc,           \* the exception caught by the consumer's except clause ("" if none)
    log,           \* the lines consume_realtime_data printed, in order
    raw,           \* normalisation check: the message value under projection
    values         \* normalisation check: the tuple built from it

vars == <<topic, api, pcP, df, row, out, pcC, pos, msg, record_count, conn, txn,
          table, exc, log, raw, values>>

-----------------------------------------------------------------------------
(* Bounds of the model *)

MaxBacklog == 3      \* messages already on the topic at start (small case)
Margin == 1          \* backlog range around the quota (quota case)
MaxItems == 2        \* items of a message value in the normalisation check

(* Program constants *)

Quota == 200         \* "if record_count >= 200"

-----------------------------------------------------------------------------
(* Values *)

Num(n) == <<"num", n>>
Str(s) == <<"str", s>>
NaN == <<"nan">>
None == <<"null">>
NA == <<"NA">>

\* the column list of the INSERT
fields ==
    << "segmentid", "street", "direction", "from_street", "to_street",
       "length", "street_heading", "comments", "start_longitude",
       "start_latitude", "end_longitude", "end_latitude",
       "current_speed", "last_updated" >>

\* the FLOAT columns of CREATE TABLE realtime_traffic_data, by position in fields
FloatColumns == {6, 9, 10, 11, 12, 13}

SpeedColumn == 13

\* str.lower() on the keys that occur in the model
lower(k) ==
    CASE k = "SEGMENTID" -> "segmentid"
      [] k = "SegmentId" -> "segmentid"
      [] k = "Street" -> "street"
      [] k = "STREET" -> "street"
      [] k = "CURRENT_SPEED" -> "current_speed"
      [] k = "Current_Speed" -> "current_speed"
      [] k = "LENGTH" -> "length"
      [] k = "_Traffic" -> "_traffic"
      [] OTHER -> k

DictKeys(d) == {d[i][1] : i \in DOMAIN d}

\* d.get(k, default)
Get(d, k, default) ==
    IF k \in DictKeys(d)
    THEN d[CHOOSE i \in DOMAIN d : d[i][1] = k][2]
    ELSE default

\* d[k] = v
Put(d, k, v) ==
    IF k \in DictKeys(d)
    THEN [i \in DOMAIN d |-> IF d[i][1] = k THEN <<k, v>> ELSE d[i]]
    ELSE Append(d, <<k, v>>)

LowerKeys_asis(items) == items

\* {k.lower(): v for k, v in items}
RECURSIVE LowerKeys(_)
LowerKeys(items) ==
    IF items = <<>>
    THEN <<>>
    ELSE LET n == Len(items)
         IN  Put(LowerKeys(SubSeq(items, 1, n - 1)), lower(items[n][1]), items[n][2])

\* tuple(d.get(k, None) for k in fields), d the lowercased dict
Project(items) ==
    LET d == LowerKeys(items)
    IN  [i \in 1..Len(fields) |-> Get(d, fields[i], None)]

\* value_serializer: json.dumps(v).encode('utf-8') of a dict
Serialize(d) == <<"obj", d>>

\* value_deserializer: json.loads(m.decode('utf-8')) succeeds
Deserializable(m) == m[1] \in {"obj", "arr"}

\* value_deserializer: the Python value
Deserialize(m) == IF m[1] = "obj" THEN <<"dict", m[2]>> ELSE <<"list">>

\* msg.value.items() exists
HasItems(v) == v[1] = "dict"

\* the INSERT is accepted: a FLOAT column takes a number, nan or NULL
InsertAccepts(vals) ==
    \A i \in FloatColumns : vals[i][1] \in {"num", "nan", "null"}

QuotaHit_off(n) == n > Quota

QuotaHit_never(n) == FALSE

\* record_count >= 200
QuotaHit(n) == n >= Quota

-----------------------------------------------------------------------------
(* run_dashboard, the read of the table *)

\* pd.to_numeric(errors='coerce') on one cell
ToNumeric(v) == IF v[1] = "num" THEN v ELSE NaN

ReplaceSentinel_keep(v) == v

\* .replace(-1, pd.NA) on one cell
ReplaceSentinel(v) == IF v = Num(-1) THEN NA ELSE v

IsNA(v) == v \in {NaN, NA, None}

SpeedKept(r) == ~IsNA(r[SpeedColumn])

\* df after read_sql, to_numeric, replace and dropna(subset=['current_speed'])
DashboardFrame(tbl) ==
    SelectSeq([i \in DOMAIN tbl |->
                  [tbl[i] EXCEPT ![SpeedColumn] = ReplaceSentinel(ToNumeric(@))]],
              SpeedKept)

-----------------------------------------------------------------------------
(* Inputs *)

Reading(seg, speed) == << <<"segmentid", seg>>, <<"current_speed", speed>> >>

\* three readings of segment "123" with speeds 15, -1, 25
SpeedSnapshot ==
    << Reading(Str("123"), Num(15)), Reading(Str("123"), Num(-1)),
       Reading(Str("123"), Num(25)) >>

\* snapshots the API can return, as parsed by read_csv (all rows share the columns)
Snapshots ==
    { SpeedSnapshot,
      << << <<"SEGMENTID", Num(7)>>, <<"_Traffic", Num(30)>> >>,
         << <<"SEGMENTID", Num(8)>>, <<"_Traffic", NaN>> >> >>,
      << << <<"street", Str("Main")>>, <<"LENGTH", Str("n/a")>> >> >> }

\* messages other writers can put on the topic
ForeignMessages ==
    { <<"bad">>,
      <<"arr">>,
      <<"obj", << <<"Street", Str("Oak")>>, <<"STREET", Str("Elm")>> >> >> }

\* the first n messages published by earlier runs of the producer on snapshot s
Backlog(s, n) == [i \in 1..n |-> Serialize(s[((i - 1) % Len(s)) + 1])]

InsertAt(q, j, m) == SubSeq(q, 1, j - 1) \o <<m>> \o SubSeq(q, j, Len(q))

\* the topics of n messages: a backlog of s, one message of which may be foreign
Topics(s, n) ==
    {Backlog(s, n)} \cup
    {InsertAt(Backlog(s, n - 1), j, m) : j \in 1..n, m \in ForeignMessages}

-----------------------------------------------------------------------------
(* Initial states.  consume_realtime_data and produce_realtime_data have   *)
(* not been called yet; the table is empty and the topic holds what        *)
(* earlier producer runs left on it.                                       *)

InitWith(snapshot, backlog) ==
    /\ topic = backlog
    /\ api = snapshot
    /\ pcP = "Idle"
    /\ df = <<>>
    /\ row = 1
    /\ out = <<>>
    /\ pcC = "Start"
    /\ pos = 0
    /\ msg = <<"none">>
    /\ record_count = 0
    /\ conn = [ensure |-> "none", consume |-> "none"]
    /\ txn = <<>>
    /\ table = <<>>
    /\ exc = ""
    /\ log = <<>>
    /\ raw = <<>>
    /\ values = <<>>

Init ==
    \E s \in Snapshots, n \in 0..MaxBacklog :
        \E t \in Topics(s, n) : InitWith(s, t)

\* the topic holds about as many readings as the quota
QuotaInit ==
    \E n \in (Quota - Margin)..(Quota + Margin) :
        InitWith(SpeedSnapshot, Backlog(SpeedSnapshot, n))

-----------------------------------------------------------------------------
(* produce_realtime_data *)

producerVars == <<pcP, df, row, out>>
consumerVars == <<pcC, pos, msg, record_count, conn, txn, table, exc>>
normVars == <<raw, values>>

\* except Exception as e: print(f"Failed to fetch/send data: {e}")
ProducerFailed(e) ==
    /\ pcP' = "Failed"
    /\ out' = <<[line |-> "Failed to fetch/send data", e |-> e]>>

\* requests.get, pd.read_csv, KafkaProducer(...)
P_Begin ==
    /\ pcP = "Idle"
    /\ \/ /\ df' = api
          /\ row' = 1
          /\ pcP' = "Sending"
          /\ UNCHANGED out
       \/ /\ \E e \in {"RequestException", "NoBrokersAvailable"} : ProducerFailed(e)
          /\ UNCHANGED <<df, row>>
    /\ UNCHANGED <<topic, api, consumerVars, log, normVars>>

\* one turn of "for _, row in df.iterrows(): producer.send(...)"
P_Send ==
    /\ pcP = "Sending"
    /\ row <= Len(df)
    /\ \/ /\ topic' = Append(topic, Serialize(df[row]))
          /\ row' = row + 1
          /\ UNCHANGED <<pcP, out>>
       \/ /\ ProducerFailed("KafkaError")
          /\ UNCHANGED <<topic, row>>
    /\ UNCHANGED <<api, df, consumerVars, log, normVars>>

\* the loop is exhausted: print("Real-time data sent to Kafka")
P_Done ==
    /\ pcP = "Sending"
    /\ row > Len(df)
    /\ pcP' = "Done"
    /\ out' = <<[line |-> "Real-time data sent to Kafka"]>>
    /\ UNCHANGED <<topic, api, df, row, consumerVars, log, normVars>>

-----------------------------------------------------------------------------
(* consume_realtime_data *)

\* except Exception as e: print(f"Kafka Error: {e}")
ConsumerFailed(e) ==
    /\ pcC' = "Error"
    /\ exc' = e
    /\ log' = Append(log, [line |-> "Kafka Error", e |-> e])

\* ensure_realtime_table_exists(): connect, CREATE TABLE IF NOT EXISTS, commit, close
C_EnsureTable ==
    /\ pcC = "Start"
    /\ \/ /\ conn' = [conn EXCEPT !.ensure = "closed"]
          /\ log' = Append(log, [line |-> "realtime_traffic_data table ensured"])
          /\ pcC' = "Subscribe"
          /\ UNCHANGED exc
       \/ \* psycopg2.connect raises
          /\ ConsumerFailed("OperationalError")
          /\ UNCHANGED conn
       \* execute or commit raises: conn.close() is not reached
       \/ /\ ConsumerFailed("OperationalError")
          /\ conn' = [conn EXCEPT !.ensure = "open"]
    /\ UNCHANGED <<topic, api, producerVars, pos, msg, record_count, txn, table,
                   normVars>>

\* as C_Subscribe, with auto_offset_reset='latest'
C_Subscribe_latest ==
    /\ pcC = "Subscribe"
    /\ \/ /\ pos' = Len(topic)
          /\ pcC' = "Connect"
          /\ UNCHANGED <<exc, log>>
       \/ /\ ConsumerFailed("NoBrokersAvailable")
          /\ UNCHANGED pos
    /\ UNCHANGED <<topic, api, producerVars, msg, record_count, conn, txn, table,
                   normVars>>

\* KafkaConsumer('realtime_traffic', auto_offset_reset='earliest', ...), no group_id
C_Subscribe ==
    /\ pcC = "Subscribe"
    /\ \/ /\ pos' = 0
          /\ pcC' = "Connect"
          /\ UNCHANGED <<exc, log>>
       \/ /\ ConsumerFailed("NoBrokersAvailable")
          /\ UNCHANGED pos
    /\ UNCHANGED <<topic, api, producerVars, msg, record_count, conn, txn, table,
                   normVars>>

\* conn = psycopg2.connect(DATABASE_URL); cur = conn.cursor(); record_count = 0
C_Connect ==
    /\ pcC = "Connect"
    /\ \/ /\ conn' = [conn EXCEPT !.consume = "open"]
          /\ record_count' = 0
          /\ pcC' = "Fetch"
          /\ UNCHANGED <<exc, log>>
       \/ /\ ConsumerFailed("OperationalError")
          /\ UNCHANGED <<conn, record_count>>
    /\ UNCHANGED <<topic, api, producerVars, pos, msg, txn, table, normVars>>

\* "for msg in consumer": the iterator delivers the next message, deserialized
C_Fetch ==
    /\ pcC = "Fetch"
    /\ \/ /\ pos < Len(topic)
          /\ pos' = pos + 1
          /\ IF Deserializable(topic[pos + 1])
             THEN /\ msg' = Deserialize(topic[pos + 1])
                  /\ pcC' = "Insert"
                  /\ UNCHANGED <<exc, log>>
             ELSE /\ ConsumerFailed("JSONDecodeError")
                  /\ UNCHANGED msg
       \/ \* the broker connection fails during the poll
          /\ ConsumerFailed("KafkaError")
          /\ UNCHANGED <<pos, msg>>
    /\ UNCHANGED <<topic, api, producerVars, record_count, conn, txn, table,
                   normVars>>

\* as C_Timeout, with the iterator stopping although a message is waiting
C_Timeout_early ==
    /\ pcC = "Fetch"
    /\ pos <= Len(topic)
    /\ pcC' = "IdleTimeout"
    /\ UNCHANGED <<topic, api, producerVars, pos, msg, record_count, conn, txn,
                   table, exc, log, normVars>>

\* consumer_timeout_ms=10000 elapses with no message: the iterator stops
C_Timeout ==
    /\ pcC = "Fetch"
    /\ pos = Len(topic)
    /\ pcC' = "IdleTimeout"
    /\ UNCHANGED <<topic, api, producerVars, pos, msg, record_count, conn, txn,
                   table, exc, log, normVars>>

\* d = {...}; values = tuple(...); cur.execute(INSERT ...)
C_Insert ==
    /\ pcC = "Insert"
    /\ \/ IF ~HasItems(msg)
          THEN /\ ConsumerFailed("AttributeError")
               /\ UNCHANGED txn
          ELSE IF InsertAccepts(Project(msg[2]))
          THEN /\ txn' = Append(txn, Project(msg[2]))
               /\ pcC' = "Commit"
               /\ UNCHANGED <<exc, log>>
          ELSE /\ ConsumerFailed("DataError")
               /\ UNCHANGED txn
       \/ \* the storage connection is lost
          /\ ConsumerFailed("OperationalError")
          /\ UNCHANGED txn
    /\ UNCHANGED <<topic, api, producerVars, pos, msg, record_count, conn, table,
                   normVars>>

\* as C_Commit, without the conn.commit()
C_Commit_missing ==
    /\ pcC = "Commit"
    /\ \/ /\ record_count' = record_count + 1
          /\ IF QuotaHit(record_count + 1)
             THEN /\ log' = Append(log, [line |-> "200 real-time records processed"])
                  /\ pcC' = "QuotaReached"
             ELSE /\ pcC' = "Fetch"
                  /\ UNCHANGED log
          /\ UNCHANGED <<exc, table, txn>>
       \/ /\ ConsumerFailed("OperationalError")
          /\ UNCHANGED <<table, txn, record_count>>
    /\ UNCHANGED <<topic, api, producerVars, pos, msg, conn, normVars>>

\* conn.commit(); record_count += 1; if record_count >= 200: print(...); break
C_Commit ==
    /\ pcC = "Commit"
    /\ \/ /\ table' = table \o txn
          /\ txn' = <<>>
          /\ record_count' = record_count + 1
          /\ IF QuotaHit(record_count + 1)
             THEN /\ log' = Append(log, [line |-> "200 real-time records processed"])
                  /\ pcC' = "QuotaReached"
             ELSE /\ pcC' = "Fetch"
                  /\ UNCHANGED log
          /\ UNCHANGED exc
       \/ /\ ConsumerFailed("OperationalError")
          /\ UNCHANGED <<table, txn, record_count>>
    /\ UNCHANGED <<topic, api, producerVars, pos, msg, conn, normVars>>

Producer == P_Begin \/ P_Send \/ P_Done

Consumer ==
    C_EnsureTable \/ C_Subscribe \/ C_Connect \/ C_Fetch \/ C_Timeout \/ C_Insert
        \/ C_Commit

Next == Producer \/ Consumer

Spec == Init /\ [][Next]_vars

QuotaSpec == QuotaInit /\ [][Next]_vars

\* the consumer thread keeps running until its function returns
FairSpec == Spec /\ WF_vars(Consumer)

-----------------------------------------------------------------------------
(* The projection of lines 113-120 on arbitrary message values *)

Keys == {"segmentid", "SegmentId", "current_speed", "CURRENT_SPEED", "street", "_Traffic"}

Cells == {Num(-1), Str("x"), None}

Items == Keys \X Cells

RECURSIVE Dicts(_)
\* the dicts of at most n items
Dicts(n) ==
    IF n = 0
    THEN {<<>>}
    ELSE LET shorter == Dicts(n - 1)
         IN  shorter \cup
             {Append(d, it) : d \in shorter, it \in Items}

DistinctKeys(d) == \A i, j \in DOMAIN d : d[i][1] = d[j][1] => i = j

NormInit ==
    /\ \E d \in {x \in Dicts(MaxItems) : DistinctKeys(x)} : raw = d
    /\ values = <<>>
    /\ topic = <<>>
    /\ api = <<>>
    /\ pcP = "Idle"
    /\ df = <<>>
    /\ row = 1
    /\ out = <<>>
    /\ pcC = "Insert"
    /\ pos = 0
    /\ msg = <<"none">>
    /\ record_count = 0
    /\ conn = [ensure |-> "closed", consume |-> "open"]
    /\ txn = <<>>
    /\ table = <<>>
    /\ exc = ""
    /\ log = <<>>

\* values = tuple(d.get(k, None) for k in fields)
N_Project ==
    /\ values = <<>>
    /\ values' = Project(raw)
    /\ UNCHANGED <<topic, api, producerVars, consumerVars, log, raw>>

NormSpec == NormInit /\ [][N_Project]_vars

-----------------------------------------------------------------------------
(* Vocabulary of the properties *)

\* the consumer's state in the terms Idle -> Subscribed -> Draining -> terminal
State ==
    CASE pcC \in {"Start", "Subscribe"} -> "Idle"
      [] pcC = "Connect" -> "Subscribed"
      [] pcC \in {"Fetch", "Insert", "Commit"} -> "Draining"
      [] OTHER -> pcC

Terminal == {"QuotaReached", "IdleTimeout", "Error"}

Success == {"QuotaReached", "IdleTimeout"}

\* the row a valid message at offset i - 1 is stored as
RowOf(i) == IF topic[i][1] = "obj" THEN Project(topic[i][2]) ELSE <<>>

\* the current_speed message i was published with
SpeedOf(i) ==
    IF topic[i][1] = "obj" THEN Get(LowerKeys(topic[i][2]), "current_speed", None)
    ELSE None

\* messages that were on the topic before this run of the producer
InitialBacklog == Len(topic) - (row - 1)

Min(a, b) == IF a <= b THEN a ELSE b

Lines == {log[i].line : i \in DOMAIN log}

-----------------------------------------------------------------------------
(* C1: with at least 200 messages on the topic, one invocation of the      *)
(* consumer inserts and commits exactly 200 rows, the rows of the first    *)
(* 200 messages, ends in QuotaReached and never fetches message 201; it    *)
(* does not end in IdleTimeout.                                            *)
C1_QuotaTermination ==
    /\ pos <= Quota
    /\ pcC = "QuotaReached" =>
          /\ record_count = Quota
          /\ Len(table) = Quota
          /\ txn = <<>>
          /\ pos = Quota
          /\ \A i \in 1..Quota : table[i] = RowOf(i)
    /\ InitialBacklog >= Quota => pcC # "IdleTimeout"

C1_Witness == pcC = "QuotaReached" /\ Len(topic) > Quota /\ pcP = "Idle"

(* C2: when fewer messages than the quota are published, the invocation    *)
(* ends; if it ends in IdleTimeout it has committed one row per published  *)
(* message, nothing more, and IdleTimeout is told apart from QuotaReached  *)
(* and Error by what the invocation printed and caught.                    *)
C2_IdleTermination ==
    /\ [](pcC = "IdleTimeout" =>
             /\ record_count = pos
             /\ Len(table) = pos
             /\ txn = <<>>
             /\ pos < Quota
             /\ \A i \in 1..pos : table[i] = RowOf(i)
             /\ exc = ""
             /\ "Kafka Error" \notin Lines
             /\ "200 real-time records processed" \notin Lines)
    /\ [](pcC = "QuotaReached" => "200 real-time records processed" \in Lines)
    /\ [](pcC = "Error" => "Kafka Error" \in Lines)
    /\ [][pcC' = "IdleTimeout" /\ pcC # "IdleTimeout" =>
             record_count' = Len(topic')]_vars
    /\ (Len(topic) < Quota) ~> (pcC \in {"IdleTimeout", "Error"} \/ Len(topic) >= Quota)

C2_Witness == pcC = "IdleTimeout" /\ record_count = 5 /\ Len(topic) = 5

(* C3: an undeserializable message does not abort the cycle: the consumer  *)
(* skips it and stores the valid messages before and after it.             *)
C3_MalformedSkipped ==
    /\ ~(pcC = "Error" /\ exc = "JSONDecodeError")
    /\ pcC = "IdleTimeout" =>
          Len(table) = Cardinality({i \in 1..pos : topic[i][1] = "obj"})

(* C4, as claimed: a consumer that ends without failure has a row for      *)
(* every reading that was published before it started.                     *)
C4_NeverLost ==
    pcC \in Success =>
        /\ Len(table) >= InitialBacklog
        /\ \A i \in 1..InitialBacklog : \E j \in DOMAIN table : table[j] = RowOf(i)

(* C4, amended: a consumer that ends without failure has a row for each of *)
(* the first min(N, 200) readings published before it started.             *)
C4_NeverLostUpToQuota ==
    pcC \in Success =>
        /\ Len(table) >= Min(InitialBacklog, Quota)
        /\ \A i \in 1..Min(InitialBacklog, Quota) :
              \E j \in DOMAIN table : table[j] = RowOf(i)

C4_Witness == pcC = "IdleTimeout" /\ InitialBacklog = Quota - 1 /\ Len(table) >= Quota - 1

(* C5: a failed publish or consume cycle reports the error together with   *)
(* the number of messages sent, or rows committed, before the failure.     *)
C5_ErrorsCarryCount ==
    /\ pcC = "Error" =>
          /\ "count" \in DOMAIN log[Len(log)]
          /\ log[Len(log)].count = record_count
    /\ pcP = "Failed" =>
          /\ "count" \in DOMAIN out[1]
          /\ out[1].count = row - 1

(* C6: when the invocation has ended, in any outcome, no storage           *)
(* connection it opened is still open.                                     *)
C6_ConnectionsReleased ==
    pcC \in Terminal => conn.consume # "open" /\ conn.ensure # "open"

(* C7: the tuple built from a message value has the 14 fields in the fixed *)
(* order; a field takes the value of an item whose lowercased key is the   *)
(* field's name, null if there is none, and items with other keys change   *)
(* nothing.                                                                *)
C7_SchemaCompleteness ==
    values # <<>> =>
        /\ Len(values) = 14
        /\ \A i \in 1..14 :
              LET hits == {j \in DOMAIN raw : lower(raw[j][1]) = fields[i]}
              IN  IF hits = {}
                  THEN values[i] = None
                  ELSE \E j \in hits : values[i] = raw[j][2]
        /\ \A j \in DOMAIN raw :
              (\A i \in 1..14 : lower(raw[j][1]) # fields[i]) =>
                  values = Project(SubSeq(raw, 1, j - 1) \o SubSeq(raw, j + 1, Len(raw)))

C7_Witness ==
    /\ values # <<>>
    /\ DictKeys(raw) = {"CURRENT_SPEED", "_Traffic"}
    /\ values[SpeedColumn] = Num(-1)

(* C8, as claimed: no stored row has the sentinel -1 as its current_speed. *)
C8_SentinelStoredNull ==
    \A i \in DOMAIN table : table[i][SpeedColumn] # Num(-1)

(* C8, amended: the consumer stores current_speed as published, -1         *)
(* included; the dashboard's read of the table turns -1 into a missing     *)
(* value and drops the row, so no row it works on has speed -1 or no speed.*)
C8_SentinelDroppedOnRead ==
    /\ \A i \in DOMAIN table : table[i][SpeedColumn] = SpeedOf(i)
    /\ \A i \in DOMAIN DashboardFrame(table) :
          /\ DashboardFrame(table)[i][SpeedColumn][1] = "num"
          /\ DashboardFrame(table)[i][SpeedColumn] # Num(-1)
    /\ Len(DashboardFrame(table)) =
          Cardinality({i \in DOMAIN table :
                          /\ table[i][SpeedColumn][1] = "num"
                          /\ table[i][SpeedColumn] # Num(-1)})

C8_Witness ==
    /\ Len(table) = 3
    /\ table[1][SpeedColumn] = Num(15)
    /\ table[2][SpeedColumn] = Num(-1)
    /\ table[3][SpeedColumn] = Num(25)
    /\ Len(DashboardFrame(table)) = 2
    /\ pcC = "IdleTimeout"

(* C9: whenever the consumer is about to fetch, nothing is uncommitted and *)
(* the committed rows are the projections of the messages delivered so     *)
(* far, one per message, in delivery order, record_count of them.          *)
C9_SequentialDrain ==
    pcC = "Fetch" =>
        /\ txn = <<>>
        /\ Len(table) = record_count
        /\ record_count = pos
        /\ \A i \in 1..pos : table[i] = RowOf(i)

C9_Witness == pcC = "Fetch" /\ pos = 2 /\ Len(table) = 2 /\ table[1] # table[2]

(* C10: an invocation moves Idle -> Subscribed -> Draining, may fail from  *)
(* any of them, leaves Draining only for a terminal state, never leaves a  *)
(* terminal state and commits at most 200 rows.  It always ends, whatever  *)
(* is published: until it has ended a step of the consumer is enabled, and *)
(* every step of the consumer raises C10_Progress, which is bounded by the *)
(* quota and not by the topic.                                             *)
C10_Progress ==
    CASE pcC = "Start" -> 0
      [] pcC = "Subscribe" -> 1
      [] pcC = "Connect" -> 2
      [] pcC = "Fetch" -> 3 * record_count + 3
      [] pcC = "Insert" -> 3 * record_count + 4
      [] pcC = "Commit" -> 3 * record_count + 5
      [] OTHER -> 3 * Quota + 4

C10_Edges ==
    \/ State' = State
    \/ State = "Idle" /\ State' \in {"Subscribed", "Error"}
    \/ State = "Subscribed" /\ State' \in {"Draining", "Error"}
    \/ State = "Draining" /\ State' \in Terminal

C10_OneShotDrain ==
    /\ [](/\ Len(table) <= Quota
          /\ record_count <= Quota
          /\ C10_Progress <= 3 * Quota + 4
          /\ State \in Terminal \/ ENABLED Consumer)
    /\ [][C10_Edges]_vars
    /\ [][Consumer => C10_Progress' > C10_Progress]_vars

C10_Witness == pcC = "QuotaReached" /\ pcP = "Sending" /\ Len(topic) > Quota + Margin

====
